---------------------------- MODULE Spec2Model ----------------------------
(***************************************************************************)
(* Concentra: the voice-driven study timer of concentra_app.py.            *)
(*                                                                         *)
(* The model covers the presentation shell's worker slot and start button  *)
(* (GifBackgroundApp), the interaction loop of the worker thread           *)
(* (VoiceWorker.run and VoiceWorker.get_voice_input), the speech output    *)
(* helper (speak_text) and the duration parser (word_to_num).              *)
(*                                                                         *)
(* Text is a sequence of one-character strings, so that lower(), strip(),  *)
(* the substring test and the two number parsers are computed character by *)
(* character.  A parsed number n / 10^e is the record Num(n, e), kept      *)
(* normalised (no trailing zero in the fraction), so that equal values are *)
(* equal records.                                                          *)
(***************************************************************************)
EXTENDS Integers, Sequences, FiniteSets, TLC

(***************************************************************************)
(* Bounds of the model.                                                    *)
(***************************************************************************)
\* Number of VoiceWorker objects the shell may create in one run.
MaxWorkers == 2
\* Capacity of the queue of signals posted to the shell's event loop.
MaxQueue == 2
\* The count of consecutive failed captures saturates here.
MaxFails == 3
\* The count of continue cycles saturates here.
MaxCycles == 2
\* Longest generated input of the duration parser.
MaxLen == 4

(***************************************************************************)
(* Text.                                                                   *)
(***************************************************************************)
UpperChars ==
    << "A", "B", "C", "D", "E", "F", "G", "H", "I", "J", "K", "L", "M",
       "N", "O", "P", "Q", "R", "S", "T", "U", "V", "W", "X", "Y", "Z" >>

LowerChars ==
    << "a", "b", "c", "d", "e", "f", "g", "h", "i", "j", "k", "l", "m",
       "n", "o", "p", "q", "r", "s", "t", "u", "v", "w", "x", "y", "z" >>

Whitespace == { " ", "\t", "\n" }

Digits == << "0", "1", "2", "3", "4", "5", "6", "7", "8", "9" >>

IsDigit(c) == \E i \in 1..10 : Digits[i] = c

DigitValue(c) == (CHOOSE i \in 1..10 : Digits[i] = c) - 1

\* str.lower() on one character.
lower_char(c) ==
    IF \E i \in 1..26 : UpperChars[i] = c
    THEN LowerChars[CHOOSE i \in 1..26 : UpperChars[i] = c]
    ELSE c

\* str.lower()
str_lower(s) == [i \in 1..Len(s) |-> lower_char(s[i])]

RECURSIVE LStrip(_)
LStrip(s) ==
    IF s = <<>> \/ s[1] \notin Whitespace THEN s ELSE LStrip(Tail(s))

RECURSIVE RStrip(_)
RStrip(s) ==
    IF s = <<>> \/ s[Len(s)] \notin Whitespace
    THEN s
    ELSE RStrip(SubSeq(s, 1, Len(s) - 1))

\* str.strip()
str_strip(s) == RStrip(LStrip(s))

\* Python's  needle in haystack  on strings.
str_contains(haystack, needle) ==
    \E i \in 1..(Len(haystack) - Len(needle) + 1) :
        SubSeq(haystack, i, i + Len(needle) - 1) = needle

\* str.replace(old, new) for single characters.
str_replace(s, old, new) ==
    [i \in 1..Len(s) |-> IF s[i] = old THEN new ELSE s[i]]

\* str.split(): the maximal runs of non-whitespace characters.
RECURSIVE str_split(_)
str_split(s) ==
    LET t == LStrip(s)
        k == IF \E i \in 1..Len(t) : t[i] \in Whitespace
             THEN CHOOSE i \in 1..Len(t) :
                    /\ t[i] \in Whitespace
                    /\ \A j \in 1..(i - 1) : t[j] \notin Whitespace
             ELSE Len(t) + 1
    IN  IF t = <<>>
        THEN <<>>
        ELSE <<SubSeq(t, 1, k - 1)>> \o str_split(SubSeq(t, k, Len(t)))

(***************************************************************************)
(* Values: optional text and optional numbers.                             *)
(***************************************************************************)
Str(s) == [tag |-> "str", s |-> s]

NoneText == [tag |-> "None", s |-> <<>>]

RECURSIVE Num(_, _)
Num(n, e) ==
    IF e > 0 /\ n % 10 = 0
    THEN Num(n \div 10, e - 1)
    ELSE [tag |-> "float", n |-> n, e |-> e]

Inf(sign) == [tag |-> "inf", n |-> sign, e |-> 0]

NaN == [tag |-> "nan", n |-> 0, e |-> 0]

NoneNum == [tag |-> "None", n |-> 0, e |-> 0]

ValueError == [tag |-> "ValueError", n |-> 0, e |-> 0]

RECURSIVE Pow10(_)
Pow10(k) == IF k = 0 THEN 1 ELSE 10 * Pow10(k - 1)

RECURSIVE DigitsValue(_)
DigitsValue(ds) ==
    IF ds = <<>>
    THEN 0
    ELSE 10 * DigitsValue(SubSeq(ds, 1, Len(ds) - 1)) + DigitValue(ds[Len(ds)])

AllDigits(ds) == \A i \in 1..Len(ds) : IsDigit(ds[i])

\* Python's  x > 0  on a float: false for nan, true for +inf.
GreaterThanZero(v) ==
    \/ v.tag = "float" /\ v.n > 0
    \/ v.tag = "inf" /\ v.n > 0

(***************************************************************************)
(* float(word), line 55.  The grammar is: optional surrounding whitespace, *)
(* an optional sign, then inf, infinity or nan in any letter case, or      *)
(* decimal digits with at most one point and at least one digit.  The      *)
(* exponent and digit-separator forms need characters (e, _ after a digit) *)
(* that no input of the model holds.  The result is ValueError when        *)
(* float() raises it.                                                      *)
(***************************************************************************)
ParseFloat(s) ==
    LET t    == str_strip(s)
        neg  == t /= <<>> /\ t[1] = "-"
        body == IF t /= <<>> /\ t[1] \in {"+", "-"} THEN Tail(t) ELSE t
        low  == str_lower(body)
        dot  == IF \E i \in 1..Len(body) : body[i] = "."
                THEN CHOOSE i \in 1..Len(body) :
                       /\ body[i] = "."
                       /\ \A j \in 1..(i - 1) : body[j] /= "."
                ELSE Len(body) + 1
        ip   == SubSeq(body, 1, dot - 1)
        fp   == SubSeq(body, dot + 1, Len(body))
        mag  == DigitsValue(ip \o fp)
    IN  IF low \in { <<"i", "n", "f">>,
                     <<"i", "n", "f", "i", "n", "i", "t", "y">> }
        THEN Inf(IF neg THEN -1 ELSE 1)
        ELSE IF low = <<"n", "a", "n">>
        THEN NaN
        ELSE IF AllDigits(ip) /\ AllDigits(fp) /\ Len(ip) + Len(fp) >= 1
        THEN Num(IF neg THEN -mag ELSE mag, Len(fp))
        ELSE ValueError

(***************************************************************************)
(* w2n.word_to_num(word), line 59: the word2number library the parser      *)
(* falls back to.  It replaces hyphens by spaces, lowercases, returns an   *)
(* all-digit string as an integer, keeps only the words of its vocabulary  *)
(* (every other word is dropped), raises ValueError when none is left or   *)
(* "point" occurs twice, and sums the words by number_formation.  The      *)
(* scale words thousand, million and billion are outside the inputs of the *)
(* model.                                                                  *)
(***************************************************************************)
NumberWords ==
    << <<"z", "e", "r", "o">>,
       <<"o", "n", "e">>,
       <<"t", "w", "o">>,
       <<"t", "h", "r", "e", "e">>,
       <<"f", "o", "u", "r">>,
       <<"f", "i", "v", "e">>,
       <<"s", "i", "x">>,
       <<"s", "e", "v", "e", "n">>,
       <<"e", "i", "g", "h", "t">>,
       <<"n", "i", "n", "e">>,
       <<"t", "e", "n">>,
       <<"e", "l", "e", "v", "e", "n">>,
       <<"t", "w", "e", "l", "v", "e">>,
       <<"t", "h", "i", "r", "t", "e", "e", "n">>,
       <<"f", "o", "u", "r", "t", "e", "e", "n">>,
       <<"f", "i", "f", "t", "e", "e", "n">>,
       <<"s", "i", "x", "t", "e", "e", "n">>,
       <<"s", "e", "v", "e", "n", "t", "e", "e", "n">>,
       <<"e", "i", "g", "h", "t", "e", "e", "n">>,
       <<"n", "i", "n", "e", "t", "e", "e", "n">>,
       <<"t", "w", "e", "n", "t", "y">>,
       <<"t", "h", "i", "r", "t", "y">>,
       <<"f", "o", "r", "t", "y">>,
       <<"f", "i", "f", "t", "y">>,
       <<"s", "i", "x", "t", "y">>,
       <<"s", "e", "v", "e", "n", "t", "y">>,
       <<"e", "i", "g", "h", "t", "y">>,
       <<"n", "i", "n", "e", "t", "y">>,
       <<"h", "u", "n", "d", "r", "e", "d">> >>

NumberValues ==
    << 0, 1, 2, 3, 4, 5, 6, 7, 8, 9, 10, 11, 12, 13, 14, 15, 16, 17, 18, 19,
       20, 30, 40, 50, 60, 70, 80, 90, 100 >>

PointWord == <<"p", "o", "i", "n", "t">>

IsNumberWord(w) == \E i \in 1..Len(NumberWords) : NumberWords[i] = w

NumberWordValue(w) ==
    NumberValues[CHOOSE i \in 1..Len(NumberWords) : NumberWords[i] = w]

\* The words zero .. nine, the only ones read after "point".
IsDecimalWord(w) == IsNumberWord(w) /\ NumberWordValue(w) <= 9

\* w2n.number_formation
number_formation(words) ==
    LET numbers == [i \in 1..Len(words) |-> NumberWordValue(words[i])]
    IN  IF Len(numbers) = 4
        THEN numbers[1] * numbers[2] + numbers[3] + numbers[4]
        ELSE IF Len(numbers) = 3
        THEN numbers[1] * numbers[2] + numbers[3]
        ELSE IF Len(numbers) = 2
        THEN IF \E i \in 1..2 : numbers[i] = 100
             THEN numbers[1] * numbers[2]
             ELSE numbers[1] + numbers[2]
        ELSE numbers[1]

\* w2n.get_decimal_sum: the fraction 0.d1d2.. spelt by the words after
\* "point", zero when one of them is not a digit word.
get_decimal_sum(words) ==
    IF \E i \in 1..Len(words) : ~IsDecimalWord(words[i])
    THEN Num(0, 0)
    ELSE Num(DigitsValue([i \in 1..Len(words) |->
                            Digits[NumberWordValue(words[i]) + 1]]),
             Len(words))

W2N(s) ==
    LET low     == str_lower(str_replace(s, "-", " "))
        words   == str_split(low)
        clean   == SelectSeq(words, LAMBDA w : IsNumberWord(w) \/ w = PointWord)
        points  == Cardinality({i \in 1..Len(clean) : clean[i] = PointWord})
        at      == IF points = 1
                   THEN CHOOSE i \in 1..Len(clean) : clean[i] = PointWord
                   ELSE Len(clean) + 1
        whole   == SubSeq(clean, 1, at - 1)
        decimal == SubSeq(clean, at + 1, Len(clean))
        total   == IF Len(whole) = 0 THEN 0
                   ELSE IF Len(whole) = 1 THEN NumberWordValue(whole[1])
                   ELSE number_formation(whole)
        frac    == get_decimal_sum(decimal)
    IN  IF low /= <<>> /\ AllDigits(low)
        THEN Num(DigitsValue(low), 0)
        ELSE IF Len(clean) = 0 \/ points > 1
        THEN ValueError
        ELSE Num(total * Pow10(frac.e) + frac.n, frac.e)

(***************************************************************************)
(* Inputs.  Utterances are the texts the recogniser may return to the      *)
(* loop; the parser is also run on ExtraWords and on every string of at    *)
(* most MaxLen characters of Alphabet.                                     *)
(***************************************************************************)
Utterances ==
    { <<"t", "e", "n">>,   \* "ten"
      <<"1", "5">>,   \* "15"
      <<"3", ".", "5">>,   \* "3.5"
      <<"0">>,   \* "0"
      <<"-", "5">>,   \* "-5"
      <<"b", "a", "n", "a", "n", "a">>,   \* "banana"
      <<>>,   \* ""
      <<"s", "t", "o", "p">>,   \* "stop"
      <<"S", "T", "O", "P">>,   \* "STOP"
      <<"u", "n", "s", "t", "o", "p", "p", "a", "b", "l", "e">>,   \* "unstoppable"
      <<"s", "t", "o", "p", " ", "t", "e", "n">>,   \* "stop ten"
      <<"s", "p", "o", "t">>,   \* "spot"
      <<"i", "n", "f">>,   \* "inf"
      <<"n", "a", "n">> }   \* "nan"

ExtraWords ==
    { <<" ", "T", "E", "N", " ">>,   \* " TEN "
      <<"t", "w", "e", "n", "t", "y", " ", "f", "i", "v", "e">>,   \* "twenty five"
      <<"z", "e", "r", "o">>,   \* "zero"
      <<"t", "w", "o", " ", "p", "o", "i", "n", "t", " ", "f", "i", "v", "e">>,   \* "two point five"
      <<"t", "w", "e", "n", "t", "y", "-", "f", "i", "v", "e">>,   \* "twenty-five"
      <<"o", "n", "e", " ", "h", "u", "n", "d", "r", "e", "d">>,   \* "one hundred"
      <<"I", "n", "f", "i", "n", "i", "t", "y">>,   \* "Infinity"
      <<"-", "0">>,   \* "-0"
      <<"+", "7">>,   \* "+7"
      <<"1", ".">>,   \* "1."
      <<".", "5">>,   \* ".5"
      <<"p", "o", "i", "n", "t">> }   \* "point"

Alphabet == { "0", "5", "-", ".", " ", "t", "w", "o" }

Generated == UNION { [1..k -> Alphabet] : k \in 0..MaxLen }

ParserInputs == Utterances \cup ExtraWords \cup Generated

StopWord == <<"s", "t", "o", "p">>

(***************************************************************************)
(* State.                                                                  *)
(***************************************************************************)
VARIABLES
    worker,            \* GifBackgroundApp.worker: 0 is None, else the worker
    start_button,      \* whether the start button is shown
    windowTitle,       \* the window title, where update_status shows a status
    events,            \* signals posted to the shell's event loop, in order
    alive,             \* the process runs (no uncaught exception ended it)
    created,           \* number of VoiceWorker objects created so far
    pc,                \* each worker's position in run()
    site,              \* which call of get_voice_input a worker is in
    user_input,        \* run(): user_input
    response,          \* run(): response
    word,              \* word_to_num(): word, after lower().strip()
    minutes,           \* run(): minutes
    alarm_minutes,     \* run(): alarm_minutes
    original_minutes,  \* run(): original_minutes
    micOpen,           \* the  with sr.Microphone()  block is entered
    spoken,            \* the text of the worker's last speak_text call
    speak_failed,      \* that call ended in its except branch
    playing,           \* pygame.mixer.music is playing the worker's speech
    w2n_called,        \* word_to_num() reached w2n.word_to_num in this call
    fails,             \* consecutive captures that returned None (saturating)
    cycles             \* continue cycles of the countdown (saturating)

shellVars == <<worker, start_button, windowTitle>>

parserVars == <<word, minutes, w2n_called>>

loopVars == <<user_input, response, alarm_minutes, original_minutes,
              fails, cycles>>

audioVars == <<micOpen, spoken, speak_failed, playing>>

vars == <<worker, start_button, windowTitle, events, alive, created, pc, site,
          user_input, response, word, minutes, alarm_minutes,
          original_minutes, micOpen, spoken, speak_failed, playing,
          w2n_called, fails, cycles>>

Workers == 1..MaxWorkers

\* A status text: a format and the values an f-string puts into it.
Status(fmt, u, v) == [fmt |-> fmt, u |-> u, v |-> v]

Plain(fmt) == Status(fmt, <<>>, NoneNum)

NoStatus == Plain("")

\* setWindowTitle("Concentra")  and  setWindowTitle(f"Concentra - {text}")
IdleTitle == [base |-> "Concentra", status |-> NoStatus]

StatusTitle(text) == [base |-> "Concentra", status |-> text]

StatusUpdated(w, text) ==
    [signal |-> "status_updated", sender |-> w, text |-> text]

Finished(w) == [signal |-> "finished", sender |-> w, text |-> NoStatus]

\* The positions of run() by state of the interaction loop.
CollectingPcs ==
    { "collect", "check_input", "wtn_entry", "wtn_float", "wtn_w2n",
      "check_minutes" }

CapturePcs == { "gvi_mic", "gvi_adjust", "gvi_listen", "gvi_recognize" }

CollectingDuration(w) ==
    \/ pc[w] \in CollectingPcs
    \/ pc[w] \in CapturePcs /\ site[w] = "duration"

Counting(w) == pc[w] \in { "timer_set", "sleep" }

AwaitingContinueOrStop(w) ==
    \/ pc[w] \in { "times_up", "ask", "check_response" }
    \/ pc[w] \in CapturePcs /\ site[w] = "continue"

Terminated(w) == pc[w] \in { "finish", "returning", "exited" }

Init ==
    /\ worker = 0
    /\ start_button = TRUE
    /\ windowTitle = IdleTitle
    /\ events = <<>>
    /\ alive = TRUE
    /\ created = 0
    /\ pc = [w \in Workers |-> "idle"]
    /\ site = [w \in Workers |-> "none"]
    /\ user_input = [w \in Workers |-> NoneText]
    /\ response = [w \in Workers |-> NoneText]
    /\ word = [w \in Workers |-> <<>>]
    /\ minutes = [w \in Workers |-> NoneNum]
    /\ alarm_minutes = [w \in Workers |-> NoneNum]
    /\ original_minutes = [w \in Workers |-> NoneNum]
    /\ micOpen = [w \in Workers |-> FALSE]
    /\ spoken = [w \in Workers |-> NoStatus]
    /\ speak_failed = [w \in Workers |-> FALSE]
    /\ playing = [w \in Workers |-> FALSE]
    /\ w2n_called = [w \in Workers |-> FALSE]
    /\ fails = [w \in Workers |-> 0]
    /\ cycles = [w \in Workers |-> 0]

(***************************************************************************)
(* The presentation shell (GifBackgroundApp), on the GUI thread.           *)
(***************************************************************************)
\* A fault of start_voice_assistant: the button is not hidden.
StartVoiceAssistant_button_stays ==
    /\ alive
    /\ start_button
    /\ created < MaxWorkers
    /\ windowTitle' = StatusTitle(Plain("Starting assistant..."))
    /\ created' = created + 1
    /\ worker' = created + 1
    /\ pc' = [pc EXCEPT ![created + 1] = "run"]
    /\ UNCHANGED <<start_button, events, alive, site, loopVars, parserVars,
                   audioVars>>

\* start_voice_assistant: the slot of the start button's clicked signal; a
\* hidden button cannot be clicked.
StartVoiceAssistant ==
    /\ alive
    /\ start_button
    /\ created < MaxWorkers
    /\ start_button' = FALSE
    /\ windowTitle' = StatusTitle(Plain("Starting assistant..."))
    /\ created' = created + 1
    /\ worker' = created + 1
    /\ pc' = [pc EXCEPT ![created + 1] = "run"]
    /\ UNCHANGED <<events, alive, site, loopVars, parserVars, audioVars>>

\* update_status, the slot of status_updated.
UpdateStatus ==
    /\ alive
    /\ events /= <<>>
    /\ Head(events).signal = "status_updated"
    /\ windowTitle' = StatusTitle(Head(events).text)
    /\ events' = Tail(events)
    /\ UNCHANGED <<worker, start_button, alive, created, pc, site, loopVars,
                   parserVars, audioVars>>

\* A fault of on_assistant_finished: the button is not shown again.
OnAssistantFinished_button_hidden ==
    /\ alive
    /\ events /= <<>>
    /\ Head(events).signal = "finished"
    /\ windowTitle' = IdleTitle
    /\ worker' = 0
    /\ events' = Tail(events)
    /\ UNCHANGED <<start_button, alive, created, pc, site, loopVars,
                   parserVars, audioVars>>

\* on_assistant_finished, the slot of finished.
OnAssistantFinished ==
    /\ alive
    /\ events /= <<>>
    /\ Head(events).signal = "finished"
    /\ windowTitle' = IdleTitle
    /\ start_button' = TRUE
    /\ worker' = 0
    /\ events' = Tail(events)
    /\ UNCHANGED <<alive, created, pc, site, loopVars, parserVars, audioVars>>

(***************************************************************************)
(* Helpers of the worker's steps.                                          *)
(***************************************************************************)
\* A fault of the delivery: the newest event is handled first.
Emit_front(e) ==
    /\ Len(events) < MaxQueue
    /\ events' = <<e>> \o events

\* signal.emit(...) from the worker thread: posted to the shell's event loop.
Emit(e) ==
    /\ Len(events) < MaxQueue
    /\ events' = Append(events, e)

\* speak_text(text): synthesis, then playback; an exception of synthesis,
\* of the mixer or of loading is caught and printed (ok = FALSE) and nothing
\* is played; else the music plays from line 41 on.
speak_text(w, text, ok) ==
    /\ spoken' = [spoken EXCEPT ![w] = text]
    /\ speak_failed' = [speak_failed EXCEPT ![w] = ~ok]
    /\ playing' = [playing EXCEPT ![w] = ok]

\* A fault of lines 42-43: speak_text returns without waiting.
Blocked_no_wait(w) == FALSE

\* Lines 42-43: speak_text does not return while the music is busy, so the
\* worker takes no further step of run() until the playback is over.
Blocked(w) == playing[w]

\* Lines 42-44: the playback is over, get_busy() is false and the mixer is
\* shut down.
PlaybackEnds(w) ==
    /\ alive
    /\ playing[w]
    /\ playing' = [playing EXCEPT ![w] = FALSE]
    /\ UNCHANGED <<shellVars, events, alive, created, pc, site, loopVars,
                   parserVars, micOpen, spoken, speak_failed>>

Goto(w, label) == pc' = [pc EXCEPT ![w] = label]

\* An exception no handler of run() catches leaves run(): PyQt ends the
\* process for an unhandled exception in a QThread's run().
Uncaught(w) ==
    /\ Goto(w, "crashed")
    /\ alive' = FALSE
    /\ micOpen' = [micOpen EXCEPT ![w] = FALSE]

\* return value  from get_voice_input, to the call it was made from.
GviReturn(w, value) ==
    /\ Goto(w, IF site[w] = "duration" THEN "check_input" ELSE "check_response")
    /\ user_input' = IF site[w] = "duration"
                     THEN [user_input EXCEPT ![w] = value]
                     ELSE user_input
    /\ response' = IF site[w] = "duration"
                   THEN response
                   ELSE [response EXCEPT ![w] = value]
    /\ fails' = IF site[w] = "duration"
                THEN [fails EXCEPT ![w] =
                        IF value = NoneText
                        THEN IF fails[w] < MaxFails THEN fails[w] + 1 ELSE MaxFails
                        ELSE 0]
                ELSE fails
    /\ micOpen' = [micOpen EXCEPT ![w] = FALSE]

(***************************************************************************)
(* VoiceWorker.run: collecting the duration (lines 98-111).                *)
(***************************************************************************)
\* Lines 98-100: the greeting.
RunGreet(w) ==
    /\ alive
    /\ ~Blocked(w)
    /\ pc[w] = "run"
    /\ Emit(StatusUpdated(w, Plain("Hello! I am Concentra. How many minutes?")))
    /\ \E ok \in BOOLEAN : speak_text(w, Plain("Hello! I am Concentra, ..."), ok)
    /\ alarm_minutes' = [alarm_minutes EXCEPT ![w] = Num(0, 0)]
    /\ Goto(w, "collect")
    /\ UNCHANGED <<shellVars, alive, created, site, user_input, response,
                   original_minutes, fails, cycles, parserVars, micOpen>>

\* Line 102 and lines 71-72: get_voice_input("Set alarm time in minutes")
\* is entered and speaks its prompt.
RunAskDuration(w) ==
    /\ alive
    /\ ~Blocked(w)
    /\ pc[w] = "collect"
    /\ site' = [site EXCEPT ![w] = "duration"]
    /\ \E ok \in BOOLEAN : speak_text(w, Plain("Set alarm time in minutes"), ok)
    /\ Goto(w, "gvi_mic")
    /\ UNCHANGED <<shellVars, events, alive, created, loopVars, parserVars,
                   micOpen>>

\* A fault of lines 103-104: the loop gives up after MaxFails failed
\* captures in a row.
RunCheckInput_retry_limit(w) ==
    /\ alive
    /\ ~Blocked(w)
    /\ pc[w] = "check_input"
    /\ Goto(w, IF user_input[w] = NoneText
               THEN IF fails[w] >= MaxFails THEN "finish" ELSE "collect"
               ELSE "wtn_entry")
    /\ UNCHANGED <<shellVars, events, alive, created, site, loopVars,
                   parserVars, audioVars>>

\* Lines 103-105: a failed capture restarts the loop; a text goes to
\* word_to_num.
RunCheckInput(w) ==
    /\ alive
    /\ ~Blocked(w)
    /\ pc[w] = "check_input"
    /\ Goto(w, IF user_input[w] = NoneText THEN "collect" ELSE "wtn_entry")
    /\ UNCHANGED <<shellVars, events, alive, created, site, loopVars,
                   parserVars, audioVars>>

\* A fault of line 106: >= in place of >.
ValidDuration_zero_accepted(m) ==
    m /= NoneNum /\ m.tag \in { "float", "inf" } /\ m.n >= 0

\* Line 106: minutes is not None and minutes > 0
ValidDuration(m) == m /= NoneNum /\ GreaterThanZero(m)

\* Lines 106-111: the duration is accepted, or refused with a status.
RunCheckMinutes(w) ==
    /\ alive
    /\ ~Blocked(w)
    /\ pc[w] = "check_minutes"
    /\ IF ValidDuration(minutes[w])
       THEN /\ alarm_minutes' = [alarm_minutes EXCEPT ![w] = minutes[w]]
            /\ Goto(w, "timer_set")
            /\ UNCHANGED <<events, spoken, speak_failed, playing>>
       ELSE /\ Emit(StatusUpdated(w,
                      Plain("Invalid input. Please say a positive number.")))
            /\ \E ok \in BOOLEAN :
                 speak_text(w, Plain("Invalid input. Please say a number."), ok)
            /\ Goto(w, "collect")
            /\ UNCHANGED alarm_minutes
    /\ UNCHANGED <<shellVars, alive, created, site, user_input, response,
                   original_minutes, fails, cycles, parserVars, micOpen>>

(***************************************************************************)
(* word_to_num (lines 49-61), called at line 105.                          *)
(***************************************************************************)
\* Lines 51-53: a non-string gives None; a string is lowercased and trimmed.
WtnNormalize(w) ==
    /\ alive
    /\ ~Blocked(w)
    /\ pc[w] = "wtn_entry"
    /\ IF user_input[w].tag /= "str"
       THEN /\ minutes' = [minutes EXCEPT ![w] = NoneNum]
            /\ Goto(w, "check_minutes")
            /\ UNCHANGED word
       ELSE /\ word' = [word EXCEPT ![w] = str_strip(str_lower(user_input[w].s))]
            /\ Goto(w, "wtn_float")
            /\ UNCHANGED minutes
    /\ w2n_called' = [w2n_called EXCEPT ![w] = FALSE]
    /\ UNCHANGED <<shellVars, events, alive, created, site, loopVars,
                   audioVars>>

\* A fault of lines 54-57: a parsed value that is not greater than zero is
\* returned as None.
WtnFloat_positive_only(w) ==
    /\ alive
    /\ ~Blocked(w)
    /\ pc[w] = "wtn_float"
    /\ IF ParseFloat(word[w]) /= ValueError
       THEN /\ minutes' = [minutes EXCEPT ![w] =
                             IF GreaterThanZero(ParseFloat(word[w]))
                             THEN ParseFloat(word[w])
                             ELSE NoneNum]
            /\ Goto(w, "check_minutes")
       ELSE /\ Goto(w, "wtn_w2n")
            /\ UNCHANGED minutes
    /\ UNCHANGED <<shellVars, events, alive, created, site, loopVars,
                   word, w2n_called, audioVars>>

\* A fault of lines 54-57: the numeric parse is left out and every word
\* goes to the word conversion.
WtnFloat_skipped(w) ==
    /\ alive
    /\ ~Blocked(w)
    /\ pc[w] = "wtn_float"
    /\ Goto(w, "wtn_w2n")
    /\ UNCHANGED <<shellVars, events, alive, created, site, loopVars,
                   parserVars, audioVars>>

\* Lines 54-57: return float(word), unless it raises ValueError.
WtnFloat(w) ==
    /\ alive
    /\ ~Blocked(w)
    /\ pc[w] = "wtn_float"
    /\ IF ParseFloat(word[w]) /= ValueError
       THEN /\ minutes' = [minutes EXCEPT ![w] = ParseFloat(word[w])]
            /\ Goto(w, "check_minutes")
       ELSE /\ Goto(w, "wtn_w2n")
            /\ UNCHANGED minutes
    /\ UNCHANGED <<shellVars, events, alive, created, site, loopVars,
                   word, w2n_called, audioVars>>

\* Lines 58-61: return float(w2n.word_to_num(word)), or None on ValueError.
WtnWords(w) ==
    /\ alive
    /\ ~Blocked(w)
    /\ pc[w] = "wtn_w2n"
    /\ w2n_called' = [w2n_called EXCEPT ![w] = TRUE]
    /\ minutes' = [minutes EXCEPT ![w] =
                     IF W2N(word[w]) /= ValueError THEN W2N(word[w]) ELSE NoneNum]
    /\ Goto(w, "check_minutes")
    /\ UNCHANGED <<shellVars, events, alive, created, site, loopVars,
                   word, audioVars>>

(***************************************************************************)
(* VoiceWorker.get_voice_input (lines 69-94), after its prompt.            *)
(***************************************************************************)
\* Line 73: the microphone is opened.
GviOpenMicrophone(w) ==
    /\ alive
    /\ ~Blocked(w)
    /\ pc[w] = "gvi_mic"
    /\ micOpen' = [micOpen EXCEPT ![w] = TRUE]
    /\ Goto(w, "gvi_adjust")
    /\ UNCHANGED <<shellVars, events, alive, created, site, loopVars,
                   parserVars, spoken, speak_failed, playing>>

\* Lines 74-76: calibration, then "Listening" is shown and spoken.
GviAnnounce(w) ==
    /\ alive
    /\ ~Blocked(w)
    /\ pc[w] = "gvi_adjust"
    /\ Emit(StatusUpdated(w, Plain("Listening...")))
    /\ \E ok \in BOOLEAN : speak_text(w, Plain("Listening"), ok)
    /\ Goto(w, "gvi_listen")
    /\ UNCHANGED <<shellVars, alive, created, site, loopVars, parserVars,
                   micOpen>>

\* Lines 73, 74 and 78: opening the microphone, calibrating or listening
\* raises something other than WaitTimeoutError (no input device, a stream
\* error): no handler of get_voice_input or run catches it.
GviMicrophoneError(w) ==
    /\ alive
    /\ ~Blocked(w)
    /\ pc[w] \in { "gvi_mic", "gvi_adjust", "gvi_listen" }
    /\ Uncaught(w)
    /\ UNCHANGED <<shellVars, events, created, site, loopVars, parserVars,
                   spoken, speak_failed, playing>>

\* Line 78: a phrase was recorded; the with block is left.
GviListen(w) ==
    /\ alive
    /\ ~Blocked(w)
    /\ pc[w] = "gvi_listen"
    /\ micOpen' = [micOpen EXCEPT ![w] = FALSE]
    /\ Goto(w, "gvi_recognize")
    /\ UNCHANGED <<shellVars, events, alive, created, site, loopVars,
                   parserVars, spoken, speak_failed, playing>>

\* Lines 79-81: nothing was said within the timeout.
GviListenTimeout(w) ==
    /\ alive
    /\ ~Blocked(w)
    /\ pc[w] = "gvi_listen"
    /\ Emit(StatusUpdated(w, Plain("Listening timed out. Try again.")))
    /\ GviReturn(w, NoneText)
    /\ UNCHANGED <<shellVars, alive, created, site, alarm_minutes,
                   original_minutes, cycles, parserVars, spoken, speak_failed, playing>>

\* Lines 83-86: the recogniser returns a text.
GviRecognized(w) ==
    /\ alive
    /\ ~Blocked(w)
    /\ pc[w] = "gvi_recognize"
    /\ \E text \in Utterances :
         /\ Emit(StatusUpdated(w, Status("You said: {text}", text, NoneNum)))
         /\ \E ok \in BOOLEAN :
              speak_text(w, Status("You said {text}", text, NoneNum), ok)
         /\ GviReturn(w, Str(text))
    /\ UNCHANGED <<shellVars, alive, created, site, alarm_minutes,
                   original_minutes, cycles, parserVars>>

\* Lines 87-90: sr.UnknownValueError, the speech was unintelligible.
GviUnknownValue(w) ==
    /\ alive
    /\ ~Blocked(w)
    /\ pc[w] = "gvi_recognize"
    /\ Emit(StatusUpdated(w,
              Plain("Could not understand audio. Please try again.")))
    /\ \E ok \in BOOLEAN :
         speak_text(w, Plain("Sorry, I did not understand."), ok)
    /\ GviReturn(w, NoneText)
    /\ UNCHANGED <<shellVars, alive, created, site, alarm_minutes,
                   original_minutes, cycles, parserVars>>

\* Lines 91-94: sr.RequestError, the recognition service failed.
GviRequestError(w) ==
    /\ alive
    /\ ~Blocked(w)
    /\ pc[w] = "gvi_recognize"
    /\ Emit(StatusUpdated(w,
              Plain("Speech service error. Please check connection.")))
    /\ \E ok \in BOOLEAN :
         speak_text(w,
           Plain("Sorry, there is a problem with the speech service."), ok)
    /\ GviReturn(w, NoneText)
    /\ UNCHANGED <<shellVars, alive, created, site, alarm_minutes,
                   original_minutes, cycles, parserVars>>

(***************************************************************************)
(* VoiceWorker.run: the countdown and the continue/stop question           *)
(* (lines 112-128).                                                        *)
(***************************************************************************)
\* Lines 112-114.
RunTimerSet(w) ==
    /\ alive
    /\ ~Blocked(w)
    /\ pc[w] = "timer_set"
    /\ original_minutes' = [original_minutes EXCEPT ![w] = alarm_minutes[w]]
    /\ Emit(StatusUpdated(w,
              Status("Timer set for {original_minutes} minutes.", <<>>,
                     alarm_minutes[w])))
    /\ \E ok \in BOOLEAN :
         speak_text(w, Status("Okay, I will remind you in {original_minutes} minutes.",
                              <<>>, alarm_minutes[w]), ok)
    /\ Goto(w, "sleep")
    /\ UNCHANGED <<shellVars, alive, created, site, user_input, response,
                   alarm_minutes, fails, cycles, parserVars, micOpen>>

\* Line 117: time.sleep(original_minutes * 60) returns after the countdown.
\* It raises OverflowError for an infinite duration (and for one beyond the
\* platform's largest timeout, which no input of the model reaches).
RunSleep(w) ==
    /\ alive
    /\ ~Blocked(w)
    /\ pc[w] = "sleep"
    /\ IF original_minutes[w].tag = "float"
       THEN /\ Goto(w, "times_up")
            /\ UNCHANGED <<alive, micOpen>>
       ELSE Uncaught(w)
    /\ UNCHANGED <<shellVars, events, created, site, loopVars, parserVars,
                   spoken, speak_failed, playing>>

\* Lines 118-119.
RunTimesUp(w) ==
    /\ alive
    /\ ~Blocked(w)
    /\ pc[w] = "times_up"
    /\ Emit(StatusUpdated(w, Plain("Time's up! Say 'stop' to end.")))
    /\ \E ok \in BOOLEAN :
         speak_text(w, Plain("Hey, are you studying? ..."), ok)
    /\ Goto(w, "ask")
    /\ UNCHANGED <<shellVars, alive, created, site, loopVars, parserVars,
                   micOpen>>

\* Line 120 and lines 71-72: get_voice_input("Continue or stop?") is
\* entered and speaks its prompt.
RunAskContinue(w) ==
    /\ alive
    /\ ~Blocked(w)
    /\ pc[w] = "ask"
    /\ site' = [site EXCEPT ![w] = "continue"]
    /\ \E ok \in BOOLEAN : speak_text(w, Plain("Continue or stop?"), ok)
    /\ Goto(w, "gvi_mic")
    /\ UNCHANGED <<shellVars, events, alive, created, loopVars, parserVars,
                   micOpen>>

\* A fault of line 121: the test without lower().
SaysStop_case_sensitive(r) ==
    /\ r /= NoneText
    /\ r.s /= <<>>
    /\ str_contains(r.s, StopWord)

\* A fault of line 121: no response taken as "stop".
SaysStop_or_silence(r) ==
    \/ r = NoneText
    \/ str_contains(str_lower(r.s), StopWord)

\* Line 121: response and "stop" in response.lower()
SaysStop(r) ==
    /\ r /= NoneText
    /\ r.s /= <<>>
    /\ str_contains(str_lower(r.s), StopWord)

\* Lines 121-124: the stop branch.
RunStop(w) ==
    /\ alive
    /\ ~Blocked(w)
    /\ pc[w] = "check_response"
    /\ SaysStop(response[w])
    /\ Emit(StatusUpdated(w, Plain("Alarm stopped. Great work!")))
    /\ \E ok \in BOOLEAN :
         speak_text(w, Plain("Okay, stopping the alarm. Have a great day!"), ok)
    /\ Goto(w, "finish")
    /\ UNCHANGED <<shellVars, alive, created, site, loopVars, parserVars,
                   micOpen>>

\* A fault of lines 125-127: the next countdown adds the duration again.
RunContinue_drift(w) ==
    /\ alive
    /\ ~Blocked(w)
    /\ pc[w] = "check_response"
    /\ ~SaysStop(response[w])
    /\ Emit(StatusUpdated(w,
              Status("Continuing timer for {original_minutes} minutes.", <<>>,
                     original_minutes[w])))
    /\ \E ok \in BOOLEAN :
         speak_text(w, Status("Okay, continuing for another {original_minutes} minutes.",
                              <<>>, original_minutes[w]), ok)
    /\ cycles' = [cycles EXCEPT ![w] =
                    IF cycles[w] < MaxCycles THEN cycles[w] + 1 ELSE MaxCycles]
    /\ original_minutes' = [original_minutes EXCEPT ![w] =
                              IF original_minutes[w].tag = "float"
                              THEN Num(original_minutes[w].n + alarm_minutes[w].n,
                                       original_minutes[w].e)
                              ELSE original_minutes[w]]
    /\ Goto(w, "sleep")
    /\ UNCHANGED <<shellVars, alive, created, site, user_input, response,
                   alarm_minutes, fails, parserVars, micOpen>>

\* Lines 125-127: the continue branch.
RunContinue(w) ==
    /\ alive
    /\ ~Blocked(w)
    /\ pc[w] = "check_response"
    /\ ~SaysStop(response[w])
    /\ Emit(StatusUpdated(w,
              Status("Continuing timer for {original_minutes} minutes.", <<>>,
                     original_minutes[w])))
    /\ \E ok \in BOOLEAN :
         speak_text(w, Status("Okay, continuing for another {original_minutes} minutes.",
                              <<>>, original_minutes[w]), ok)
    /\ cycles' = [cycles EXCEPT ![w] =
                    IF cycles[w] < MaxCycles THEN cycles[w] + 1 ELSE MaxCycles]
    /\ Goto(w, "sleep")
    /\ UNCHANGED <<shellVars, alive, created, site, user_input, response,
                   alarm_minutes, original_minutes, fails, parserVars, micOpen>>

\* Line 128: self.finished.emit(), the last statement of run(): its locals
\* are dead from here on.
RunFinish(w) ==
    /\ alive
    /\ ~Blocked(w)
    /\ pc[w] = "finish"
    /\ Emit(Finished(w))
    /\ Goto(w, "returning")
    /\ site' = [site EXCEPT ![w] = "none"]
    /\ user_input' = [user_input EXCEPT ![w] = NoneText]
    /\ response' = [response EXCEPT ![w] = NoneText]
    /\ alarm_minutes' = [alarm_minutes EXCEPT ![w] = NoneNum]
    /\ original_minutes' = [original_minutes EXCEPT ![w] = NoneNum]
    /\ fails' = [fails EXCEPT ![w] = 0]
    /\ cycles' = [cycles EXCEPT ![w] = 0]
    /\ word' = [word EXCEPT ![w] = <<>>]
    /\ minutes' = [minutes EXCEPT ![w] = NoneNum]
    /\ w2n_called' = [w2n_called EXCEPT ![w] = FALSE]
    /\ spoken' = [spoken EXCEPT ![w] = NoStatus]
    /\ speak_failed' = [speak_failed EXCEPT ![w] = FALSE]
    /\ UNCHANGED <<shellVars, alive, created, micOpen, playing>>

\* A fault of line 128: the completion is signalled again when run() returns.
RunReturn_second_signal(w) ==
    /\ alive
    /\ ~Blocked(w)
    /\ pc[w] = "returning"
    /\ Emit(Finished(w))
    /\ Goto(w, "exited")
    /\ UNCHANGED <<shellVars, alive, created, site, loopVars, parserVars,
                   audioVars>>

\* run() returns and the thread ends.
RunReturn(w) ==
    /\ alive
    /\ ~Blocked(w)
    /\ pc[w] = "returning"
    /\ Goto(w, "exited")
    /\ UNCHANGED <<shellVars, events, alive, created, site, loopVars,
                   parserVars, audioVars>>

(***************************************************************************)
(* Specifications.                                                         *)
(***************************************************************************)
Shell ==
    \/ StartVoiceAssistant
    \/ UpdateStatus
    \/ OnAssistantFinished

Parser(w) ==
    \/ WtnNormalize(w)
    \/ WtnFloat(w)
    \/ WtnWords(w)

Capture(w) ==
    \/ GviOpenMicrophone(w)
    \/ GviAnnounce(w)
    \/ GviMicrophoneError(w)
    \/ GviListen(w)
    \/ GviListenTimeout(w)
    \/ GviRecognized(w)
    \/ GviUnknownValue(w)
    \/ GviRequestError(w)

Run(w) ==
    \/ RunGreet(w)
    \/ RunAskDuration(w)
    \/ RunCheckInput(w)
    \/ RunCheckMinutes(w)
    \/ RunTimerSet(w)
    \/ RunSleep(w)
    \/ RunTimesUp(w)
    \/ RunAskContinue(w)
    \/ RunStop(w)
    \/ RunContinue(w)
    \/ RunFinish(w)
    \/ RunReturn(w)

Next ==
    \/ Shell
    \/ \E w \in Workers : Run(w) \/ Capture(w) \/ Parser(w) \/ PlaybackEnds(w)

\* The application: the shell and the workers it starts.
Spec == Init /\ [][Next]_vars

\* The Qt event loop of the GUI thread delivers every posted signal.
FairSpec == Spec /\ WF_vars(UpdateStatus) /\ WF_vars(OnAssistantFinished)

\* word_to_num alone, called on each input of ParserInputs and on None.
ParserInit ==
    /\ worker = 1
    /\ start_button = FALSE
    /\ windowTitle = StatusTitle(Plain("Starting assistant..."))
    /\ events = <<>>
    /\ alive = TRUE
    /\ created = 1
    /\ pc = [w \in Workers |-> IF w = 1 THEN "wtn_entry" ELSE "idle"]
    /\ site = [w \in Workers |-> "none"]
    /\ user_input \in { [w \in Workers |-> IF w = 1 THEN t ELSE NoneText] :
                          t \in { Str(s) : s \in ParserInputs } \cup { NoneText } }
    /\ response = [w \in Workers |-> NoneText]
    /\ word = [w \in Workers |-> <<>>]
    /\ minutes = [w \in Workers |-> NoneNum]
    /\ alarm_minutes = [w \in Workers |-> NoneNum]
    /\ original_minutes = [w \in Workers |-> NoneNum]
    /\ micOpen = [w \in Workers |-> FALSE]
    /\ spoken = [w \in Workers |-> NoStatus]
    /\ speak_failed = [w \in Workers |-> FALSE]
    /\ playing = [w \in Workers |-> FALSE]
    /\ w2n_called = [w \in Workers |-> FALSE]
    /\ fails = [w \in Workers |-> 0]
    /\ cycles = [w \in Workers |-> 0]

ParserNext == \E w \in Workers : Parser(w)

ParserSpec == ParserInit /\ [][ParserNext]_vars

(***************************************************************************)
(* Properties.                                                             *)
(***************************************************************************)
\* The positions of run() where the utterance just captured in
\* CollectingDuration is being judged (lines 103-111 and word_to_num).
Judging(w) ==
    pc[w] \in { "check_input", "wtn_entry", "wtn_float", "wtn_w2n",
                "check_minutes" }

\* The captured texts that are no positive duration: zero, negative,
\* not-a-number, or without any number.
NoDurationTexts ==
    { <<"0">>, <<"-", "5">>, <<"b", "a", "n", "a", "n", "a">>, <<>>,
      <<"s", "t", "o", "p">>, <<"S", "T", "O", "P">>,
      <<"u", "n", "s", "t", "o", "p", "p", "a", "b", "l", "e">>,
      <<"s", "p", "o", "t">>, <<"n", "a", "n">> }

NoDuration(u) == u = NoneText \/ u.s \in NoDurationTexts

\* The text holds s, t, o, p in a row, each letter in either case.
HoldsStop(u) ==
    /\ u /= NoneText
    /\ \E i \in 1..(Len(u.s) - 3) :
         /\ u.s[i] \in { "s", "S" }
         /\ u.s[i + 1] \in { "t", "T" }
         /\ u.s[i + 2] \in { "o", "O" }
         /\ u.s[i + 3] \in { "p", "P" }

\* The duration each accepted utterance of the model stands for.
DurationOf(u) ==
    CASE u = Str(<<"t", "e", "n">>) -> Num(10, 0)
      [] u = Str(<<"1", "5">>) -> Num(15, 0)
      [] u = Str(<<"3", ".", "5">>) -> Num(35, 1)
      [] u = Str(<<"s", "t", "o", "p", " ", "t", "e", "n">>) -> Num(10, 0)
      [] u = Str(<<"i", "n", "f">>) -> Inf(1)
      [] OTHER -> NoneNum

\* The worker took a step.
Stepped(w) == pc'[w] /= pc[w]

\* C1: the countdown is entered only with a duration greater than zero, and
\* a failed capture or a text that is no positive duration keeps the loop
\* in CollectingDuration.
C1_PositiveDuration ==
    /\ [](\A w \in Workers :
            Counting(w) =>
              /\ alarm_minutes[w].tag \in { "float", "inf" }
              /\ alarm_minutes[w].n > 0
              /\ pc[w] = "sleep" => original_minutes[w] = alarm_minutes[w])
    /\ [][\A w \in Workers :
            Judging(w) /\ NoDuration(user_input[w]) /\ Stepped(w)
              => CollectingDuration(w)']_vars

\* A negative number was parsed, refused, and the loop asks again.
C1_Witness ==
    \E w \in Workers :
        /\ pc[w] = "collect"
        /\ user_input[w] = Str(<<"-", "5">>)
        /\ minutes[w] = Num(-5, 0)

\* C2: in AwaitingContinueOrStop the loop goes to Terminated exactly when
\* the captured text holds "stop" in any letter case, anywhere in it.
C2_StopTerminates ==
    [][\A w \in Workers :
         pc[w] = "check_response" /\ Stepped(w)
           => (Terminated(w)' <=> HoldsStop(response[w]))]_vars

\* "unstoppable" ended the loop.
C2_Witness ==
    \E w \in Workers :
        /\ pc[w] = "finish"
        /\ response[w] =
             Str(<<"u", "n", "s", "t", "o", "p", "p", "a", "b", "l", "e">>)

\* C3: any response without "stop", a failed capture or an empty text
\* included, returns the loop to the countdown, and every countdown runs
\* for the duration confirmed in CollectingDuration.
C3_ContinueKeepsDuration ==
    /\ [](\A w \in Workers :
            pc[w] = "sleep" =>
              /\ original_minutes[w] = DurationOf(user_input[w])
              /\ original_minutes[w] /= NoneNum)
    /\ [][\A w \in Workers :
            pc[w] = "check_response" /\ ~HoldsStop(response[w]) /\ Stepped(w)
              => /\ pc'[w] = "sleep"
                 /\ original_minutes'[w] = original_minutes[w]]_vars

\* A second continue cycle, after a failed capture, still counts 3.5 minutes.
C3_Witness ==
    \E w \in Workers :
        /\ pc[w] = "sleep"
        /\ cycles[w] >= 2
        /\ response[w] = NoneText
        /\ original_minutes[w] = Num(35, 1)

\* The status each capture failure reports.
CaptureFailureStatus ==
    { Plain("Listening timed out. Try again."),
      Plain("Could not understand audio. Please try again."),
      Plain("Speech service error. Please check connection.") }

\* C4: in CollectingDuration a capture that fails (timeout, unintelligible,
\* service error) posts its status to the shell, and the loop then prompts
\* again in the same state, whatever the number of failures so far.
C4_CaptureFailureReprompts ==
    [][\A w \in Workers :
         /\ ( /\ pc[w] \in { "gvi_listen", "gvi_recognize" }
              /\ site[w] = "duration"
              /\ pc'[w] = "check_input"
              /\ user_input'[w] = NoneText )
            => /\ Len(events') = Len(events) + 1
               /\ events'[Len(events')].signal = "status_updated"
               /\ events'[Len(events')].sender = w
               /\ events'[Len(events')].text \in CaptureFailureStatus
         /\ pc[w] = "check_input" /\ user_input[w] = NoneText /\ Stepped(w)
            => pc'[w] = "collect"
         /\ pc[w] = "collect" /\ Stepped(w)
            => /\ pc'[w] = "gvi_mic"
               /\ site'[w] = "duration"
               /\ spoken'[w] = Plain("Set alarm time in minutes")]_vars

\* After three failed captures in a row the loop has prompted again.
C4_Witness ==
    \E w \in Workers :
        /\ fails[w] >= 3
        /\ pc[w] = "gvi_mic"
        /\ site[w] = "duration"
        /\ spoken[w] = Plain("Set alarm time in minutes")

\* The worker's finished signal is posted and not handled yet.
Signalled(w) == \E i \in 1..Len(events) : events[i] = Finished(w)

\* A worker whose completion the shell has not handled yet.
Unhandled(w) ==
    /\ pc[w] /= "idle"
    /\ \/ ~Terminated(w)
       \/ pc[w] = "finish"
       \/ Signalled(w)

\* C5: at most one loop is active; from the creation of a worker until
\* on_assistant_finished handles its completion the start button is hidden
\* and the shell holds that worker, so no second worker is created.
C5_OneLoop ==
    /\ Cardinality({ w \in Workers : pc[w] /= "idle" /\ ~Terminated(w) }) <= 1
    /\ Cardinality({ w \in Workers : Unhandled(w) }) <= 1
    /\ \A w \in Workers : Unhandled(w) => ~start_button /\ worker = w

\* A second loop runs, after the first one ended.
C5_Witness ==
    /\ pc[1] \in { "returning", "exited" }
    /\ pc[2] = "sleep"
    /\ ~start_button
    /\ worker = 2

\* A step of the shell: it changed its own state or took a signal.
ShellStepped ==
    \/ worker' /= worker
    \/ start_button' /= start_button
    \/ windowTitle' /= windowTitle
    \/ Len(events') < Len(events)

\* C6 as claimed: the loop ends only from AwaitingContinueOrStop on a text
\* holding "stop"; a text holding "stop" in CollectingDuration is refused as
\* an invalid duration; no step of the shell moves a started loop.
C6_AsClaimed ==
    [][/\ \A w \in Workers :
            /\ Terminated(w)' /\ ~Terminated(w)
                 => pc[w] = "check_response" /\ HoldsStop(response[w])
            /\ Judging(w) /\ HoldsStop(user_input[w]) /\ Stepped(w)
                 => CollectingDuration(w)'
       /\ ShellStepped
            => /\ alive' = alive
               /\ \A w \in Workers : pc[w] /= "idle" => pc'[w] = pc[w]]_vars

\* C6, amended: the loop ends only from AwaitingContinueOrStop on a text
\* holding "stop"; a text holding "stop" in CollectingDuration never ends
\* the loop: it is judged as a duration like any other text, refused unless
\* it also holds a positive number ("stop ten"), which starts the countdown;
\* no step of the shell moves a started loop.
C6_StopOnlyEndsLoop ==
    [][/\ \A w \in Workers :
            /\ Terminated(w)' /\ ~Terminated(w)
                 => pc[w] = "check_response" /\ HoldsStop(response[w])
            /\ Judging(w) /\ HoldsStop(user_input[w]) /\ Stepped(w)
                 => /\ CollectingDuration(w)' \/ pc'[w] = "timer_set"
                    /\ pc'[w] = "timer_set"
                         => /\ DurationOf(user_input[w]) /= NoneNum
                            /\ alarm_minutes'[w] = DurationOf(user_input[w])
       /\ ShellStepped
            => /\ alive' = alive
               /\ \A w \in Workers : pc[w] /= "idle" => pc'[w] = pc[w]]_vars

\* "stop ten" in CollectingDuration started a countdown of ten minutes.
C6_Witness ==
    \E w \in Workers :
        /\ pc[w] = "sleep"
        /\ user_input[w] = Str(<<"s", "t", "o", "p", " ", "t", "e", "n">>)
        /\ original_minutes[w] = Num(10, 0)

\* The shell is idle: the button is shown, no worker is held, the title is
\* the idle title.
ShellIdle ==
    /\ worker = 0
    /\ start_button
    /\ windowTitle = IdleTitle
    /\ alive

\* C7: once a loop has signalled completion the shell eventually is idle
\* again, ready for a new start; and the shell lets go of a started worker,
\* or shows the button again, only after that worker signalled completion.
C7_CompletionResetsShell ==
    /\ \A w \in Workers : Signalled(w) ~> ShellIdle
    /\ [](\A w \in Workers :
            pc[w] /= "idle" /\ (worker /= w \/ start_button)
              => pc[w] \in { "returning", "exited" })

\* The first loop has ended and the shell is idle again.
C7_Witness ==
    /\ ShellIdle
    /\ created = 1
    /\ pc[1] = "exited"
    /\ events = <<>>

\* C8 as claimed: no failure of a collaborator ends a started worker before
\* it reached Terminated and emitted completion.
C8_NoAbnormalEnd ==
    /\ alive
    /\ \A w \in Workers : pc[w] /= "crashed"

\* word_to_num has returned (to line 106).
Returned(w) == pc[w] = "check_minutes"

\* C9 as claimed: every result of word_to_num other than the failure
\* sentinel is a number greater than zero.
C9_AsClaimed ==
    \A w \in Workers :
        Returned(w) => minutes[w] = NoneNum \/ GreaterThanZero(minutes[w])

\* The text holds no numeral, no number word and no inf or nan.
NonNumeric(s) ==
    LET low  == str_lower(str_strip(s))
        core == IF low /= <<>> /\ low[1] \in { "+", "-" } THEN Tail(low) ELSE low
        ws   == str_split(str_replace(low, "-", " "))
    IN  /\ \A i \in 1..Len(s) : ~IsDigit(s[i])
        /\ \A i \in 1..Len(ws) : ~IsNumberWord(ws[i]) /\ ws[i] /= PointWord
        /\ core \notin { <<"i", "n", "f">>, <<"n", "a", "n">>,
                         <<"i", "n", "f", "i", "n", "i", "t", "y">> }

\* The text is decimal digits, with or without a minus sign before them.
IsInteger(s) ==
    /\ s /= <<>>
    /\ IF s[1] = "-" THEN Len(s) > 1 /\ AllDigits(Tail(s)) ELSE AllDigits(s)

IntegerValue(s) ==
    IF s[1] = "-" THEN -DigitsValue(Tail(s)) ELSE DigitsValue(s)

\* C9, amended: word_to_num returns the failure sentinel for every
\* non-numeric input, and returns the value of a numeric input also when
\* that value is zero or negative ("0" gives 0.0, "-5" gives -5.0, "zero"
\* gives 0.0): the parser does not refuse them.
C9_SentinelOnlyForNonNumeric ==
    \A w \in Workers :
        Returned(w) =>
          /\ user_input[w] = NoneText => minutes[w] = NoneNum
          /\ user_input[w] /= NoneText /\ NonNumeric(user_input[w].s)
               => minutes[w] = NoneNum
          /\ user_input[w] /= NoneText /\ IsInteger(user_input[w].s)
               => minutes[w] = Num(IntegerValue(user_input[w].s), 0)
          /\ user_input[w] = Str(<<"z", "e", "r", "o">>)
               => minutes[w] = Num(0, 0)
          /\ user_input[w] = Str(<<"-", "0", ".", "5">>)
               => minutes[w] = Num(-5, 1)

\* word_to_num("-5") returned -5.0.
C9_Witness ==
    \E w \in Workers :
        /\ Returned(w)
        /\ user_input[w] = Str(<<"-", "5">>)
        /\ minutes[w] = Num(-5, 0)
        /\ ~w2n_called[w]

\* The results the specification gives as examples, and a few more.
ExpectedResult(u, other) ==
    CASE u = Str(<<"1", "5">>) -> Num(15, 0)
      [] u = Str(<<"3", ".", "5">>) -> Num(35, 1)
      [] u = Str(<<"t", "e", "n">>) -> Num(10, 0)
      [] u = Str(<<" ", "T", "E", "N", " ">>) -> Num(10, 0)
      [] u = Str(<<"t", "w", "e", "n", "t", "y", " ", "f", "i", "v", "e">>)
           -> Num(25, 0)
      [] u = Str(<<"t", "w", "e", "n", "t", "y", "-", "f", "i", "v", "e">>)
           -> Num(25, 0)
      [] u = Str(<<"o", "n", "e", " ", "h", "u", "n", "d", "r", "e", "d">>)
           -> Num(100, 0)
      [] u = Str(<<"t", "w", "o", " ", "p", "o", "i", "n", "t", " ",
                   "f", "i", "v", "e">>) -> Num(25, 1)
      [] u = Str(<<"+", "7">>) -> Num(7, 0)
      [] u = Str(<<"1", ".">>) -> Num(1, 0)
      [] u = Str(<<".", "5">>) -> Num(5, 1)
      [] u = Str(<<"I", "n", "f", "i", "n", "i", "t", "y">>) -> Inf(1)
      [] u = Str(<<"b", "a", "n", "a", "n", "a">>) -> NoneNum
      [] u = Str(<<>>) -> NoneNum
      [] OTHER -> other

\* C10: word_to_num lowercases and trims its input, returns the numeric
\* parse of it when there is one, else the word conversion when there is
\* one, else the failure sentinel, and calls the word conversion only when
\* the numeric parse failed.
C10_ParseOrder ==
    \A w \in Workers :
        Returned(w) /\ user_input[w] /= NoneText =>
          LET norm == str_strip(str_lower(user_input[w].s))
          IN  /\ word[w] = norm
              /\ w2n_called[w] <=> ParseFloat(norm) = ValueError
              /\ minutes[w] =
                   IF ParseFloat(norm) /= ValueError THEN ParseFloat(norm)
                   ELSE IF W2N(norm) /= ValueError THEN W2N(norm)
                   ELSE NoneNum
              /\ minutes[w] = ExpectedResult(user_input[w], minutes[w])

\* " TEN " was lowercased, trimmed, failed the numeric parse and was
\* converted from words to 10.0.
C10_Witness ==
    \E w \in Workers :
        /\ Returned(w)
        /\ user_input[w] = Str(<<" ", "T", "E", "N", " ">>)
        /\ word[w] = <<"t", "e", "n">>
        /\ w2n_called[w]
        /\ minutes[w] = Num(10, 0)

\* The statuses run() and get_voice_input() post when nothing fails in
\* speak_text (lines 75-126), by their format.
OrdinaryFormats ==
    { "Hello! I am Concentra. How many minutes?",
      "Listening...",
      "Listening timed out. Try again.",
      "You said: {text}",
      "Could not understand audio. Please try again.",
      "Speech service error. Please check connection.",
      "Invalid input. Please say a positive number.",
      "Timer set for {original_minutes} minutes.",
      "Time's up! Say 'stop' to end.",
      "Alarm stopped. Great work!",
      "Continuing timer for {original_minutes} minutes." }

\* This step made a speak_text call, and the call failed.
SpeakFailedNow(w) == spoken'[w] /= spoken[w] /\ speak_failed'[w]

\* C11 as claimed: when a speak_text call fails, the step posts a status
\* to the shell that reports the failure (one beyond the statuses posted
\* when speech works), and the loop goes on.
C11_AsClaimed ==
    [][\A w \in Workers :
         SpeakFailedNow(w)
           => /\ pc'[w] /= "crashed"
              /\ \E i \in (Len(events) + 1)..Len(events') :
                   /\ events'[i].signal = "status_updated"
                   /\ events'[i].sender = w
                   /\ events'[i].text.fmt \notin OrdinaryFormats]_vars


\* C12: speech output and listening never overlap. A worker opens the
\* microphone, calibrates, listens or recognises only when no speech of any
\* worker is playing: every speak call has finished its playback before the
\* next listen attempt begins, the "Listening" announcement (spoken after the
\* microphone was opened) included.
C12_SpeechThenListen ==
    [][\A w \in Workers :
         (Stepped(w) /\ pc[w] \in CapturePcs)
           => /\ ~playing[w]
              /\ (pc[w] = "gvi_listen" => \A v \in Workers : ~playing[v])]_vars

\* C12's case: the announcement was played to its end, and the listen
\* attempt that followed has captured audio.
C12_Witness ==
    \E w \in Workers :
        /\ pc[w] = "gvi_recognize"
        /\ spoken[w] = Plain("Listening")
        /\ ~speak_failed[w]
        /\ ~playing[w]

\* The step posts an event of worker w to the shell.
Posts(w) ==
    /\ Len(events') > Len(events)
    /\ events'[Len(events')].sender = w

LastPosted == events'[Len(events')]

FinalAcknowledgement == Plain("Alarm stopped. Great work!")

\* C13: the step that reaches Terminated posts the final acknowledgement
\* status; the next thing the worker posts is the completion signal, posted
\* once, from that position only; after it the worker posts nothing more,
\* and captures, speaks and counts down no more.
C13_AckThenCompletion ==
    [][\A w \in Workers :
         /\ (~Terminated(w) /\ pc'[w] \in { "finish", "returning", "exited" })
              => /\ pc'[w] = "finish"
                 /\ Posts(w)
                 /\ LastPosted = StatusUpdated(w, FinalAcknowledgement)
         /\ (pc[w] = "finish" /\ (Stepped(w) \/ Posts(w)))
              => /\ pc'[w] = "returning"
                 /\ Posts(w)
                 /\ LastPosted = Finished(w)
         /\ (Posts(w) /\ LastPosted.signal = "finished") => pc[w] = "finish"
         /\ pc[w] \in { "returning", "exited" }
              => /\ pc'[w] \in { "returning", "exited" }
                 /\ ~Posts(w)
                 /\ spoken'[w] = spoken[w]
                 /\ playing'[w] = playing[w]
                 /\ micOpen'[w] = micOpen[w]]_vars

\* C13's case: a worker has posted the acknowledgement and then the
\* completion signal, both still to be handled, and is past the signal.
C13_Witness ==
    \E w \in Workers :
        /\ pc[w] \in { "returning", "exited" }
        /\ events = <<StatusUpdated(w, FinalAcknowledgement), Finished(w)>>

\* C14: a shell that holds no worker shows the idle title; a status waiting
\* for delivery is of the worker the shell holds and was posted before that
\* worker's completion signal, which is the last event of the worker.
C14_IdleTitle ==
    /\ worker = 0 => windowTitle = IdleTitle
    /\ \A i \in 1..Len(events) :
         events[i].signal = "status_updated"
           => /\ worker = events[i].sender
              /\ \A j \in 1..(i - 1) : events[j] /= Finished(events[i].sender)

\* C14's case: the completion of a loop was handled after its last status:
\* the shell is idle again, the worker has ended and nothing is waiting.
C14_Witness ==
    /\ worker = 0
    /\ start_button
    /\ events = <<>>
    /\ \E w \in Workers : pc[w] \in { "returning", "exited" }

\* The thread of worker w is executing: started, and run() has neither
\* returned nor been left by an exception.
Executing(w) == pc[w] \notin { "idle", "exited", "crashed" }

\* C15 as claimed: at most one worker thread is executing, and while one is
\* the shell holds that worker and keeps the start button hidden, up to the
\* return of run() and not only up to the completion signal.
C15_OneExecutionContext ==
    /\ Cardinality({ w \in Workers : Executing(w) }) <= 1
    /\ \A w \in Workers : Executing(w) => worker = w /\ ~start_button

\* A finite number: neither an infinity nor not-a-number.
Finite(v) == v.tag = "float"

\* C16 as claimed: a countdown is started only with a finite duration; an
\* utterance whose direct numeric parse is an infinity or not-a-number is
\* refused like any other invalid input.
C16_FiniteDuration ==
    \A w \in Workers :
        /\ Counting(w) => Finite(alarm_minutes[w])
        /\ (pc[w] = "check_minutes" /\ minutes[w].tag \in { "inf", "nan" })
             => ~ValidDuration(minutes[w])
=============================================================================
